---- MODULE Spec2Model ----
(***************************************************************************)
(* Model of src/app.py: the Flask service that validates birth data,       *)
(* resolves location and timezone, calls the external astrology engine,    *)
(* normalises its output and joins it against the interpretation tables.   *)
(*                                                                         *)
(* Texts are TLA+ strings; Python's string operations (startswith,         *)
(* replace, lower, f-strings) are computed on them character by            *)
(* character.  Degrees are counted in tenths of a degree, so 169.9 degrees *)
(* is 1699.  JSON values carry a type tag, so that a comparison of a       *)
(* missing or wrongly typed field raises as it does in Python.             *)
(***************************************************************************)
EXTENDS Integers, Sequences, FiniteSets, TLC

VARIABLES interpretations, city_data, pc, data, eng, resp, engine_calls

vars == <<interpretations, city_data, pc, data, eng, resp, engine_calls>>

(***************************************************************************)
(* JSON values as Python sees them after request.json / json.load.         *)
(***************************************************************************)
JMissing == [t |-> "missing", n |-> 0, s |-> ""]
JNull == [t |-> "null", n |-> 0, s |-> ""]
JInt(i) == [t |-> "int", n |-> i, s |-> ""]
JStr(x) == [t |-> "str", n |-> 0, s |-> x]

\* dict.get(key) and dict.get(key, default): a missing key reads as None
\* or as the default; a key present with null reads as None.
Get(d, k) == IF d[k].t = "missing" THEN JNull ELSE d[k]
GetDefault(d, k, default) == IF d[k].t = "missing" THEN default ELSE d[k]

IsNone(v) == v.t = "null"
Truthy(v) == CASE v.t = "int" -> v.n # 0
               [] v.t = "str" -> v.s # ""
               [] OTHER -> FALSE
\* str(v), as an f-string formats it
Fmt(v) == CASE v.t = "int" -> ToString(v.n)
            [] v.t = "str" -> v.s
            [] OTHER -> "None"
PyType(v) == CASE v.t = "int" -> "int"
               [] v.t = "str" -> "str"
               [] OTHER -> "NoneType"

(***************************************************************************)
(* Python string operations.                                               *)
(***************************************************************************)
StartsWith(s, k) == Len(s) >= Len(k) /\ SubSeq(s, 1, Len(k)) = k

Contains(s, sub) ==
    \E i \in 1..(Len(s) - Len(sub) + 1) : SubSeq(s, i, i + Len(sub) - 1) = sub

RECURSIVE Replace(_, _, _)
Replace(s, old, new) ==
    IF Len(s) < Len(old) THEN s
    ELSE IF SubSeq(s, 1, Len(old)) = old
         THEN new \o Replace(SubSeq(s, Len(old) + 1, Len(s)), old, new)
         ELSE SubSeq(s, 1, 1) \o Replace(SubSeq(s, 2, Len(s)), old, new)

\* str.lower() on one character
LowerCase ==
    [A |-> "a", B |-> "b", C |-> "c", D |-> "d", E |-> "e", F |-> "f", G |-> "g",
     H |-> "h", I |-> "i", J |-> "j", K |-> "k", L |-> "l", M |-> "m", N |-> "n",
     O |-> "o", P |-> "p", Q |-> "q", R |-> "r", S |-> "s", T |-> "t", U |-> "u",
     V |-> "v", W |-> "w", X |-> "x", Y |-> "y", Z |-> "z"]
LowerChar(c) == IF c \in DOMAIN LowerCase THEN LowerCase[c] ELSE c

RECURSIVE Lower(_)
Lower(s) == IF Len(s) = 0 THEN s
            ELSE LowerChar(SubSeq(s, 1, 1)) \o Lower(SubSeq(s, 2, Len(s)))

(***************************************************************************)
(* Module-level tables.                                                    *)
(***************************************************************************)
\* A dict literal or dict lookup over a sequence of <<key, value>> pairs:
\* a key written twice keeps its last value.
DictKeys(pairs) == {pairs[i][1] : i \in 1..Len(pairs)}
DictGet(pairs, k) ==
    LET last == CHOOSE i \in 1..Len(pairs) :
                   /\ pairs[i][1] = k
                   /\ \A j \in (i + 1)..Len(pairs) : pairs[j][1] # k
    IN pairs[last][2]

utc_to_pytz_literal ==
    << <<"-10", "Pacific/Honolulu">>, <<"-9", "America/Anchorage">>,
       <<"-8", "America/Los_Angeles">>, <<"-7", "America/Denver">>,
       <<"-6", "America/Chicago">>, <<"-5", "America/New_York">>,
       <<"-4", "America/Halifax">>, <<"0", "Europe/London">>,
       <<"2", "Africa/Johannesburg">>, <<"8", "Australia/Perth">>,
       <<"9.5", "Australia/Adelaide">>, <<"10", "Australia/Sydney">>,
       <<"12", "Pacific/Auckland">>, <<"12.75", "Pacific/Chatham">>,
       <<"-12", "Etc/GMT+12">>, <<"-11", "Pacific/Pago_Pago">>,
       <<"-3", "America/Sao_Paulo">>, <<"-2", "Atlantic/South_Georgia">>,
       <<"-1", "Atlantic/Azores">>, <<"1", "Europe/Paris">>,
       <<"3", "Europe/Moscow">>, <<"4", "Asia/Dubai">>,
       <<"5", "Asia/Karachi">>, <<"5.5", "Asia/Kolkata">>,
       <<"6", "Asia/Dhaka">>, <<"7", "Asia/Bangkok">>,
       <<"8", "Asia/Shanghai">>, <<"9", "Asia/Tokyo">>,
       <<"11", "Pacific/Guadalcanal">>, <<"13", "Pacific/Tongatapu">>,
       <<"14", "Pacific/Kiritimati">> >>

utc_to_pytz == [k \in DictKeys(utc_to_pytz_literal) |-> DictGet(utc_to_pytz_literal, k)]

\* The zone names pytz.timezone accepts, as far as the table can ask.
pytz_all_timezones ==
    { "Pacific/Honolulu", "America/Anchorage", "America/Los_Angeles",
      "America/Denver", "America/Chicago", "America/New_York",
      "America/Halifax", "Europe/London", "Africa/Johannesburg",
      "Australia/Perth", "Australia/Adelaide", "Australia/Sydney",
      "Pacific/Auckland", "Pacific/Chatham", "Etc/GMT+12",
      "Pacific/Pago_Pago", "America/Sao_Paulo", "Atlantic/South_Georgia",
      "Atlantic/Azores", "Europe/Paris", "Europe/Moscow", "Asia/Dubai",
      "Asia/Karachi", "Asia/Kolkata", "Asia/Dhaka", "Asia/Bangkok",
      "Asia/Shanghai", "Asia/Tokyo", "Pacific/Guadalcanal",
      "Pacific/Tongatapu", "Pacific/Kiritimati" }

\* json.load of interpretations.json: a missing or unparsable file gives the
\* table with two empty sections, any other file gives its own contents.
EmptyDict == [k \in {} |-> ""]
DefaultInterpretations ==
    [sections |-> {"planets_in_houses", "aspects"},
     planets_in_houses |-> [k \in {} |-> EmptyDict],
     aspects |-> EmptyDict]
LoadInterpretations(file) ==
    IF ~file.exists \/ ~file.parses THEN DefaultInterpretations ELSE file.value

\* json.load of city_data.json: a missing or unparsable file gives {}.
LoadCityData(file) ==
    IF ~file.exists \/ ~file.parses THEN [k \in {} |-> <<>>] ELSE file.value

(***************************************************************************)
(* Responses and the two ways a step of the handler ends early.            *)
(***************************************************************************)
NoResponse == [pending |-> TRUE]
Failure(msg) == [success |-> FALSE, error |-> msg]

\* `return jsonify(...)` inside the try block
Return(r, calls) == [raised |-> FALSE, exc |-> "", resp |-> r, calls |-> calls]
\* an exception raised inside the try block, with str(e)
Raise(msg, calls) == [raised |-> TRUE, exc |-> msg, resp |-> NoResponse, calls |-> calls]

\* A stage either stops the handler with an outcome or hands on its values.
Stop(out) == [stop |-> TRUE, out |-> out, lat |-> JNull, lng |-> JNull, zone |-> ""]
Pass == [stop |-> FALSE, out |-> Return(NoResponse, <<>>), lat |-> JNull, lng |-> JNull, zone |-> ""]
PassCoords(lat, lng) == [Pass EXCEPT !.lat = lat, !.lng = lng]
PassZone(zone) == [Pass EXCEPT !.zone = zone]

\* `lo <= v <= hi` on a JSON value: Python raises TypeError when v is not a
\* number.
RangeCheck(lo, v, hi) ==
    IF v.t # "int" THEN "TypeError"
    ELSE IF lo <= v.n /\ v.n <= hi THEN "in" ELSE "out"
CompareError(v) ==
    "'<=' not supported between instances of 'int' and '" \o PyType(v) \o "'"

\* One `if not (lo <= v <= hi): return jsonify(error)` line; `rest` is what
\* the handler goes on to when the check passes.
RangeStep(lo, v, hi, msg, rest) ==
    CASE RangeCheck(lo, v, hi) = "TypeError" -> Stop(Raise(CompareError(v), <<>>))
      [] RangeCheck(lo, v, hi) = "out" -> Stop(Return(Failure(msg), <<>>))
      [] OTHER -> rest

(***************************************************************************)
(* datetime(year, month, day) of the standard library, on integers.        *)
(***************************************************************************)
is_leap(y) == y % 4 = 0 /\ (y % 100 # 0 \/ y % 400 = 0)
days_in_month(y, m) ==
    IF m = 2 THEN (IF is_leap(y) THEN 29 ELSE 28)
    ELSE IF m \in {4, 6, 9, 11} THEN 30 ELSE 31
datetime_raises(y, m, d) ==
    ~(1 <= y /\ y <= 9999 /\ 1 <= m /\ m <= 12 /\ 1 <= d /\ d <= days_in_month(y, m))

(***************************************************************************)
(* generate_chart, lines 106-122: ranges of the date and time fields, then *)
(* the calendar.                                                           *)
(***************************************************************************)
YearError == "Year must be between 1900 and 2025"
MonthError == "Month must be between 1 and 12"
DayError == "Day must be between 1 and 31"
HourError == "Hour must be between 0 and 23"
MinuteError == "Minute must be between 0 and 59"
DateError == "Invalid date"

\* Mutant: the day is tested before the month.
ValidateDateTime_DayFirst(d) ==
    RangeStep(1900, Get(d, "year"), 2025, YearError,
    RangeStep(1, Get(d, "day"), 31, DayError,
    RangeStep(1, Get(d, "month"), 12, MonthError,
    RangeStep(0, Get(d, "hour"), 23, HourError,
    RangeStep(0, Get(d, "minute"), 59, MinuteError,
        IF datetime_raises(Get(d, "year").n, Get(d, "month").n, Get(d, "day").n)
        THEN Stop(Return(Failure(DateError), <<>>))
        ELSE Pass)))))

ValidateDateTime(d) ==
    RangeStep(1900, Get(d, "year"), 2025, YearError,
    RangeStep(1, Get(d, "month"), 12, MonthError,
    RangeStep(1, Get(d, "day"), 31, DayError,
    RangeStep(0, Get(d, "hour"), 23, HourError,
    RangeStep(0, Get(d, "minute"), 59, MinuteError,
        IF datetime_raises(Get(d, "year").n, Get(d, "month").n, Get(d, "day").n)
        THEN Stop(Return(Failure(DateError), <<>>))
        ELSE Pass)))))

(***************************************************************************)
(* generate_chart, lines 124-142: the location.                            *)
(***************************************************************************)
ManualRequiredError == "Latitude, longitude, and timezone are required for manual input"
LatitudeError == "Latitude must be between -90 and 90"
LongitudeError == "Longitude must be between -180 and 180"
CityRequiredError == "Country, state, city, and timezone are required"
CountryError(country) == "Country " \o Fmt(country) \o " not found in city data"
CityError(city, state, country) ==
    "City " \o Fmt(city) \o ", " \o Fmt(state) \o " not found in " \o Fmt(country)

\* next((c for c in city_data[country] if c['city'] == city and
\* c['state'] == state), None): the first matching record, 0 for None
CityMatches(c, city, state) ==
    city.t = "str" /\ c.city = city.s /\ state.t = "str" /\ c.state = state.s
FindCity(records, city, state) ==
    IF \E i \in 1..Len(records) : CityMatches(records[i], city, state)
    THEN CHOOSE i \in 1..Len(records) :
            /\ CityMatches(records[i], city, state)
            /\ \A j \in 1..(i - 1) : ~CityMatches(records[j], city, state)
    ELSE 0

ManualLocation(d) ==
    IF IsNone(Get(d, "latitude")) \/ IsNone(Get(d, "longitude")) \/ ~Truthy(Get(d, "timezone"))
    THEN Stop(Return(Failure(ManualRequiredError), <<>>))
    ELSE RangeStep(-90, Get(d, "latitude"), 90, LatitudeError,
         RangeStep(-180, Get(d, "longitude"), 180, LongitudeError,
             PassCoords(Get(d, "latitude"), Get(d, "longitude"))))

CityLocation(d, cities) ==
    LET country == Get(d, "country")
        state == Get(d, "state")
        city == Get(d, "city")
    IN IF ~Truthy(country) \/ ~Truthy(state) \/ ~Truthy(city) \/ ~Truthy(Get(d, "timezone"))
       THEN Stop(Return(Failure(CityRequiredError), <<>>))
       ELSE IF ~(country.t = "str" /\ country.s \in DOMAIN cities)
       THEN Stop(Return(Failure(CountryError(country)), <<>>))
       ELSE LET i == FindCity(cities[country.s], city, state)
            IN IF i = 0
               THEN Stop(Return(Failure(CityError(city, state, country)), <<>>))
               ELSE PassCoords(cities[country.s][i].lat, cities[country.s][i].lng)

ResolveLocation(d, cities) ==
    IF GetDefault(d, "input_method", JStr("city")) = JStr("manual")
    THEN ManualLocation(d)
    ELSE CityLocation(d, cities)

(***************************************************************************)
(* generate_chart, lines 144-151: the timezone.                            *)
(***************************************************************************)
TimezoneError(timezone) == "Invalid timezone offset: " \o Fmt(timezone)
PytzError(zone) == "Invalid pytz timezone: " \o zone

\* Mutant: an offset outside the table is reported without its value.
ResolveTimezone_Unnamed(timezone) ==
    IF ~(timezone.t = "str" /\ timezone.s \in DOMAIN utc_to_pytz)
    THEN Stop(Return(Failure("Invalid timezone offset"), <<>>))
    ELSE IF utc_to_pytz[timezone.s] \notin pytz_all_timezones
    THEN Stop(Return(Failure(PytzError(utc_to_pytz[timezone.s])), <<>>))
    ELSE PassZone(utc_to_pytz[timezone.s])

ResolveTimezone(timezone) ==
    IF ~(timezone.t = "str" /\ timezone.s \in DOMAIN utc_to_pytz)
    THEN Stop(Return(Failure(TimezoneError(timezone)), <<>>))
    ELSE IF utc_to_pytz[timezone.s] \notin pytz_all_timezones
    THEN Stop(Return(Failure(PytzError(utc_to_pytz[timezone.s])), <<>>))
    ELSE PassZone(utc_to_pytz[timezone.s])

(***************************************************************************)
(* generate_chart, lines 163-189: the body records and their houses.       *)
(***************************************************************************)
planet_names ==
    <<"Ascendant", "Sun", "Moon", "Mercury", "Venus", "Mars", "Jupiter",
      "Saturn", "Uranus", "Neptune", "Pluto">>

house_names ==
    << <<"First", "First_House">>, <<"Second", "Second_House">>,
       <<"Third", "Third_House">>, <<"Fourth", "Fourth_House">>,
       <<"Fifth", "Fifth_House">>, <<"Sixth", "Sixth_House">>,
       <<"Seventh", "Seventh_House">>, <<"Eighth", "Eighth_House">>,
       <<"Ninth", "Ninth_House">>, <<"Tenth", "Tenth_House">>,
       <<"Eleventh", "Eleventh_House">>, <<"Twelfth", "Twelfth_House">> >>

\* Mutant: only the first letter of the key is compared.
HouseKeyMatches_FirstLetter(house, key) ==
    Len(house) >= 1 /\ SubSeq(house, 1, 1) = SubSeq(key, 1, 1)

\* if planet['house'].startswith(key)
HouseKeyMatches(house, key) == StartsWith(house, key)

\* for key, value in table: if house.startswith(key): house = value; break
NormalizeHouseIn(table, house) ==
    IF \E i \in 1..Len(table) : HouseKeyMatches(house, table[i][1])
    THEN LET first == CHOOSE i \in 1..Len(table) :
                         /\ HouseKeyMatches(house, table[i][1])
                         /\ \A j \in 1..(i - 1) : ~HouseKeyMatches(house, table[j][1])
         IN table[first][2]
    ELSE house

\* The list literal of lines 164-176: the Ascendant's house is the literal
\* 'First_House', the other bodies carry the engine's house string.
InitialPlanets(e) ==
    [i \in 1..Len(planet_names) |->
        [name |-> planet_names[i],
         sign |-> e.sign[planet_names[i]],
         degree |-> e.position[planet_names[i]],
         house |-> IF i = 1 THEN "First_House" ELSE e.house[planet_names[i]]]]

\* The loop of lines 184-189.
NormalizePlanets(planets) ==
    [i \in 1..Len(planets) |->
        IF planets[i].name # "Ascendant"
        THEN [planets[i] EXCEPT !.house = NormalizeHouseIn(house_names, planets[i].house)]
        ELSE planets[i]]

\* Lines 191-202: the cusps, or [] when the engine has no houses_list.
BuildHouses(e) ==
    IF e.has_houses_list
    THEN [i \in 1..Len(e.houses_list) |->
             [house |-> i, sign |-> e.houses_list[i].sign,
              degree |-> e.houses_list[i].position]]
    ELSE <<>>

(***************************************************************************)
(* generate_chart, lines 204-250: the aspects.                             *)
(***************************************************************************)
Abs(x) == IF x < 0 THEN -x ELSE x

\* Mutant: the difference is taken without abs().
Separation_Signed(p1, p2) ==
    IF p1 - p2 > 1800 THEN 3600 - (p1 - p2) ELSE p1 - p2

\* angle = abs(p1.position - p2.position); if angle > 180: angle = 360 - angle
Separation(p1, p2) ==
    IF Abs(p1 - p2) > 1800 THEN 3600 - Abs(p1 - p2) ELSE Abs(p1 - p2)

\* Mutant: the bands include their limits.
ClassifyOrb_Inclusive(orb) ==
    IF orb <= 100 THEN "conjunct"
    ELSE IF Abs(orb - 1800) <= 100 THEN "opposition"
    ELSE IF Abs(orb - 900) <= 100 THEN "square"
    ELSE IF Abs(orb - 1200) <= 100 THEN "trine"
    ELSE IF Abs(orb - 600) <= 100 THEN "sextile"
    ELSE ""

\* The if/elif chain of lines 234-243; "" stands for None.
ClassifyOrb(orb) ==
    IF orb < 100 THEN "conjunct"
    ELSE IF Abs(orb - 1800) < 100 THEN "opposition"
    ELSE IF Abs(orb - 900) < 100 THEN "square"
    ELSE IF Abs(orb - 1200) < 100 THEN "trine"
    ELSE IF Abs(orb - 600) < 100 THEN "sextile"
    ELSE ""

\* The pairs (i, j), i < j, in the order the two nested loops visit them.
RECURSIVE PairsFrom(_, _, _)
PairsFrom(i, j, n) ==
    IF i >= n THEN <<>>
    ELSE IF j > n THEN PairsFrom(i + 1, i + 2, n)
    ELSE <<(<<i, j>>)>> \o PairsFrom(i, j + 1, n)

AllPairs == PairsFrom(1, 2, Len(planet_names))

\* The one element of a singleton: a value computed once and then named.
Only(S) == CHOOSE x \in S : TRUE

\* Lines 230-250 for the pair (i, j): its record, or nothing.
PairRecord(position, i, j) ==
    Only({IF ClassifyOrb(orb) # ""
          THEN <<[planet1 |-> planet_names[i], planet2 |-> planet_names[j],
                  aspect |-> ClassifyOrb(orb), orb |-> orb]>>
          ELSE <<>> :
             orb \in {Separation(position[planet_names[i]], position[planet_names[j]])}})

RECURSIVE FallbackFrom(_, _)
FallbackFrom(position, k) ==
    IF k > Len(AllPairs) THEN <<>>
    ELSE PairRecord(position, AllPairs[k][1], AllPairs[k][2]) \o FallbackFrom(position, k + 1)

FallbackAspects(e) == Only({FallbackFrom(position, 1) : position \in {e.position}})

\* The engine's own aspects when it has an aspects_list, else the fallback.
BuildAspects(e) ==
    IF e.has_aspects_list
    THEN [i \in 1..Len(e.aspects_list) |->
             [planet1 |-> e.aspects_list[i].p1_name,
              planet2 |-> e.aspects_list[i].p2_name,
              aspect |-> e.aspects_list[i].aspect_type,
              orb |-> e.aspects_list[i].orb]]
    ELSE FallbackAspects(e)

(***************************************************************************)
(* generate_chart, lines 258-278: the interpretation texts.                *)
(***************************************************************************)
aspect_type_mapping ==
    << <<"Conjunction", "conjunct">>, <<"Opposition", "opposition">>,
       <<"Square", "square">>, <<"Trine", "trine">>, <<"Sextile", "sextile">> >>

PlanetLine(table, planet) ==
    LET display_house == Replace(planet.house, "_House", " House")
    IN IF planet.name \in DOMAIN table /\ planet.house \in DOMAIN table[planet.name]
       THEN planet.name \o " in " \o display_house \o ": " \o table[planet.name][planet.house]
       ELSE planet.name \o " in " \o display_house \o ": No interpretation available."

MappedAspect(kind) ==
    IF kind \in DictKeys(aspect_type_mapping)
    THEN DictGet(aspect_type_mapping, kind)
    ELSE Lower(kind)
SpecificKey(a, mapped_aspect) == a.planet1 \o "_" \o mapped_aspect \o "_" \o a.planet2
ReverseKey(a, mapped_aspect) == a.planet2 \o "_" \o mapped_aspect \o "_" \o a.planet1
AspectPlaceholder(a) ==
    "No interpretation available for " \o a.planet1 \o " " \o a.aspect \o " "
        \o a.planet2 \o "."

\* table.get(specific_key) or table.get(reverse_key, placeholder): `or`
\* takes its right side when the left is None or the empty text.
TextUnder(table, specific_key, reverse_key, placeholder) ==
    IF specific_key \in DOMAIN table /\ table[specific_key] # ""
    THEN table[specific_key]
    ELSE IF reverse_key \in DOMAIN table
    THEN table[reverse_key]
    ELSE placeholder

\* Lines 274-277 for one aspect record.
AspectText(table, a) ==
    Only({TextUnder(table, SpecificKey(a, mapped_aspect), ReverseKey(a, mapped_aspect),
                    AspectPlaceholder(a)) :
             mapped_aspect \in {MappedAspect(a.aspect)}})

(***************************************************************************)
(* generate_chart, lines 153-297: the engine and everything after it.      *)
(***************************************************************************)
EngineError == "Failed to generate chart: Invalid parameters"

SubjectCall(d, lat, lng, zone) ==
    [name |-> GetDefault(d, "name", JStr("User")),
     year |-> Get(d, "year"), month |-> Get(d, "month"), day |-> Get(d, "day"),
     hour |-> Get(d, "hour"), minute |-> Get(d, "minute"),
     lng |-> lng, lat |-> lat, tz_str |-> zone]

\* Lines 258-297: the two lists of texts and the success response, from the
\* body records and the aspect records built before.
SuccessResponse(e, interp, planets, aspects) ==
    [success |-> TRUE,
     svg |-> e.svg,
     planets |-> planets,
     houses |-> BuildHouses(e),
     aspects |-> aspects,
     planet_interpretations |->
         [i \in 1..Len(planets) |-> PlanetLine(interp.planets_in_houses, planets[i])],
     aspects_text |->
         [i \in 1..Len(aspects) |->
             AspectText(IF "aspects" \in interp.sections THEN interp.aspects ELSE EmptyDict,
                        aspects[i])]]

ComputeChart(d, e, interp, lat, lng, zone) ==
    LET calls == <<SubjectCall(d, lat, lng, zone)>>
    IN IF e.subject_error # "" THEN Return(Failure(EngineError), calls)
       ELSE IF e.chart_error # "" THEN Raise(e.chart_error, calls)
       ELSE IF e.template_error # "" THEN Raise(e.template_error, calls)
       ELSE IF "planets_in_houses" \notin interp.sections
       THEN Raise("'planets_in_houses'", calls)
       ELSE Return(Only({SuccessResponse(e, interp, planets, aspects) :
                            planets \in {NormalizePlanets(InitialPlanets(e))},
                            aspects \in {BuildAspects(e)}}),
                   calls)

(***************************************************************************)
(* generate_chart: the try block, then the handler with its except clause. *)
(***************************************************************************)
TryBlock(body, e, interp, cities) ==
    IF body.kind = "unparsable"
    THEN Raise("400 Bad Request: The browser (or proxy) sent a request that this server could not understand.", <<>>)
    ELSE IF body.kind # "object"
    THEN Raise("'" \o body.kind \o "' object has no attribute 'get'", <<>>)
    ELSE LET d == body.fields
             date == ValidateDateTime(d)
             loc == ResolveLocation(d, cities)
             tz == ResolveTimezone(Get(d, "timezone"))
         IN IF date.stop THEN date.out
            ELSE IF loc.stop THEN loc.out
            ELSE IF tz.stop THEN tz.out
            ELSE ComputeChart(d, e, interp, loc.lat, loc.lng, tz.zone)

\* Mutant: no except clause, the exception leaves the view function.
ExceptClause_Absent(out) == out

\* except Exception as e: return jsonify({'success': False, 'error': str(e)})
ExceptClause(out) ==
    IF out.raised THEN Return(Failure(out.exc), out.calls) ELSE out

generate_chart(body, e, interp, cities) == ExceptClause(TryBlock(body, e, interp, cities))

(***************************************************************************)
(* The routes.  A request is served in one step; requests share nothing    *)
(* but the two tables loaded at start-up, which no route writes.           *)
(***************************************************************************)
\* What Flask answers when a view function lets an exception out.
ServerError(detail) == [status |-> "500 Internal Server Error", detail |-> detail]

GenerateChart(body, e) ==
    /\ pc = "idle"
    /\ data' = body
    /\ eng' = e
    /\ \E out \in {generate_chart(body, e, interpretations, city_data)} :
          /\ resp' = IF out.raised THEN ServerError(out.exc) ELSE out.resp
          /\ engine_calls' = out.calls
    /\ pc' = "generate_chart"
    /\ UNCHANGED <<interpretations, city_data>>

GetCities ==
    /\ pc = "idle"
    /\ resp' = [cities |-> city_data]
    /\ pc' = "get_cities"
    /\ UNCHANGED <<interpretations, city_data, data, eng, engine_calls>>

Index ==
    /\ pc = "idle"
    /\ resp' = [template |-> "index.html"]
    /\ pc' = "index"
    /\ UNCHANGED <<interpretations, city_data, data, eng, engine_calls>>

(***************************************************************************)
(* The environment: files on disk, request bodies, engine results.         *)
(***************************************************************************)
MissingFile == [exists |-> FALSE, parses |-> FALSE, value |-> DefaultInterpretations]
BrokenFile == [exists |-> TRUE, parses |-> FALSE, value |-> DefaultInterpretations]
FileWith(v) == [exists |-> TRUE, parses |-> TRUE, value |-> v]

CityRecord(city, state, lat, lng) ==
    [city |-> city, state |-> state, lat |-> JInt(lat), lng |-> JInt(lng)]

\* Two Springfield records: the scan keeps the first.
GoodCities ==
    [c \in {"US", "GB"} |->
        IF c = "US"
        THEN <<CityRecord("New York", "NY", 41, -74),
               CityRecord("Springfield", "IL", 40, -90),
               CityRecord("Springfield", "IL", 39, -89)>>
        ELSE <<CityRecord("London", "England", 51, 0)>>]

\* A table whose New York record holds coordinates outside the ranges of
\* latitude and longitude: the file is read as it is.
OddCities ==
    [c \in {"US"} |-> <<CityRecord("New York", "NY", -740, 407)>>]

Fields ==
    {"name", "year", "month", "day", "hour", "minute", "input_method", "city",
     "state", "country", "latitude", "longitude", "timezone"}

ManualFields ==
    [f \in Fields |->
        CASE f = "name" -> JStr("Ada")
          [] f = "year" -> JInt(1990)
          [] f = "month" -> JInt(6)
          [] f = "day" -> JInt(15)
          [] f = "hour" -> JInt(12)
          [] f = "minute" -> JInt(0)
          [] f = "input_method" -> JStr("manual")
          [] f = "latitude" -> JInt(40)
          [] f = "longitude" -> JInt(-74)
          [] f = "timezone" -> JStr("-5")
          [] OTHER -> JMissing]

CityFields ==
    [f \in Fields |->
        CASE f = "name" -> JMissing
          [] f = "year" -> JInt(2024)
          [] f = "month" -> JInt(2)
          [] f = "day" -> JInt(29)
          [] f = "hour" -> JInt(0)
          [] f = "minute" -> JInt(59)
          [] f = "country" -> JStr("US")
          [] f = "state" -> JStr("NY")
          [] f = "city" -> JStr("New York")
          [] f = "timezone" -> JStr("-5")
          [] OTHER -> JMissing]

\* The values a field is changed to: absent, null, wrongly typed, and both
\* sides of every limit the handler tests.
Alternatives(f) ==
    CASE f = "year" -> {JMissing, JStr("1990"), JInt(1899), JInt(1900), JInt(2025), JInt(2026)}
      [] f = "month" -> {JMissing, JInt(0), JInt(1), JInt(2), JInt(4), JInt(12), JInt(13)}
      [] f = "day" -> {JNull, JInt(0), JInt(1), JInt(29), JInt(31), JInt(32)}
      [] f = "hour" -> {JMissing, JInt(-1), JInt(23), JInt(24)}
      [] f = "minute" -> {JStr("0"), JInt(-1), JInt(60)}
      [] f = "input_method" -> {JMissing, JStr("manual"), JStr("map")}
      [] f = "latitude" -> {JMissing, JStr("40"), JInt(-91), JInt(-90), JInt(0), JInt(90), JInt(91)}
      [] f = "longitude" -> {JNull, JInt(-181), JInt(-180), JInt(180), JInt(181)}
      [] f = "country" -> {JMissing, JStr(""), JStr("ZZ"), JInt(1)}
      [] f = "state" -> {JMissing, JStr(""), JStr("IL")}
      [] f = "city" -> {JMissing, JStr("Springfield"), JStr("Boston")}
      [] f = "timezone" -> {JMissing, JStr(""), JInt(-5), JStr("99")}
      [] OTHER -> {JMissing}

\* The field maps that differ from one of `from` in at most k fields.
RECURSIVE Perturbed(_, _)
Perturbed(from, k) ==
    IF k = 0 THEN from
    ELSE LET less == Perturbed(from, k - 1)
         IN less \cup {[d EXCEPT ![f] = v] : <<d, f, v>> \in
                          {<<d, f, v>> \in less \X Fields \X UNION {Alternatives(g) : g \in Fields} :
                              v \in Alternatives(f)}}

JsonObject(fields) == [kind |-> "object", fields |-> fields]
NotAnObject(kind) == [kind |-> kind, fields |-> [f \in Fields |-> JMissing]]

MaxFaults == 2

\* Every key of the offset table, on an otherwise valid request.
OffsetRequests ==
    {JsonObject([ManualFields EXCEPT !["timezone"] = JStr(k)]) : k \in DOMAIN utc_to_pytz}

Requests ==
    {JsonObject(d) : d \in Perturbed({ManualFields, CityFields}, MaxFaults)}
        \cup OffsetRequests
        \cup {NotAnObject("NoneType"), NotAnObject("list"), NotAnObject("unparsable")}

\* What the engine answers for a call.
BaseEngine ==
    [subject_error |-> "", chart_error |-> "", template_error |-> "",
     svg |-> "<svg/>",
     sign |-> [n \in {planet_names[i] : i \in 1..Len(planet_names)} |-> "Ari"],
     position |-> [n \in {planet_names[i] : i \in 1..Len(planet_names)} |->
                      (CHOOSE i \in 1..Len(planet_names) : planet_names[i] = n) * 150],
     house |-> [n \in {planet_names[i] : i \in 1..Len(planet_names)} |-> "Tenth_House"],
     has_houses_list |-> TRUE,
     houses_list |-> [i \in 1..12 |-> [sign |-> "Ari", position |-> (i - 1) * 300]],
     has_aspects_list |-> FALSE,
     aspects_list |-> <<>>]

FailingEngines ==
    {[BaseEngine EXCEPT !.subject_error = "swisseph: ephemeris file not found"],
     [BaseEngine EXCEPT !.chart_error = "chart: unknown zodiac type"],
     [BaseEngine EXCEPT !.template_error = "template: missing key 'cx'"]}

NoBody == [kind |-> "none", fields |-> [f \in Fields |-> JMissing]]

InitWith(interp_files, city_files) ==
    /\ interpretations \in {LoadInterpretations(f) : f \in interp_files}
    /\ city_data \in {LoadCityData(f) : f \in city_files}
    /\ pc = "idle"
    /\ data = NoBody
    /\ eng = BaseEngine
    /\ resp = NoResponse
    /\ engine_calls = <<>>

(***************************************************************************)
(* Spec: every request within MaxFaults changes of a valid one, against    *)
(* engines that answer or fail at each of their three steps.               *)
(***************************************************************************)
NoSections == [DefaultInterpretations EXCEPT !.sections = {}]

Init ==
    \/ InitWith({MissingFile, BrokenFile}, {FileWith(GoodCities), FileWith(OddCities)})
    \/ InitWith({FileWith(NoSections)}, {MissingFile, BrokenFile})

Next ==
    \/ pc = "idle" /\ \E body \in Requests, e \in {BaseEngine} \cup FailingEngines :
                          GenerateChart(body, e)
    \/ GetCities
    \/ Index

Spec == Init /\ [][Next]_vars

(***************************************************************************)
(* The validation constraints as the specification lists them, each with   *)
(* the message that reports it.                                            *)
(***************************************************************************)
Served == pc = "generate_chart" /\ data.kind = "object"

InInterval(v, lo, hi) ==
    IF v.t # "int" THEN "fault"
    ELSE IF lo <= v.n /\ v.n <= hi THEN "ok" ELSE "violated"

LeapYear(y) == (y % 4 = 0 /\ y % 100 # 0) \/ y % 400 = 0
CalendarValid(y, m, d) ==
    /\ (m \in {4, 6, 9, 11} => d <= 30)
    /\ (m = 2 /\ LeapYear(y) => d <= 29)
    /\ (m = 2 /\ ~LeapYear(y) => d <= 28)

ManualMode(d) == d["input_method"] = JStr("manual")

ConstraintStatus(k, d) ==
    CASE k = 1 -> InInterval(Get(d, "year"), 1900, 2025)
      [] k = 2 -> InInterval(Get(d, "month"), 1, 12)
      [] k = 3 -> InInterval(Get(d, "day"), 1, 31)
      [] k = 4 -> InInterval(Get(d, "hour"), 0, 23)
      [] k = 5 -> InInterval(Get(d, "minute"), 0, 59)
      [] k = 6 -> IF CalendarValid(Get(d, "year").n, Get(d, "month").n, Get(d, "day").n)
                  THEN "ok" ELSE "violated"
      [] k = 7 -> IF ManualMode(d)
                  THEN (IF /\ Get(d, "latitude").t # "null"
                           /\ Get(d, "longitude").t # "null"
                           /\ Truthy(Get(d, "timezone"))
                        THEN "ok" ELSE "violated")
                  ELSE (IF \A f \in {"country", "state", "city", "timezone"} : Truthy(Get(d, f))
                        THEN "ok" ELSE "violated")
      [] k = 8 -> IF ManualMode(d)
                  THEN InInterval(Get(d, "latitude"), -90, 90)
                  ELSE (IF Get(d, "country").t = "str" /\ Get(d, "country").s \in DOMAIN city_data
                        THEN "ok" ELSE "violated")
      [] OTHER -> IF ManualMode(d)
                  THEN InInterval(Get(d, "longitude"), -180, 180)
                  ELSE (IF \E i \in 1..Len(city_data[Get(d, "country").s]) :
                              /\ JStr(city_data[Get(d, "country").s][i].city) = Get(d, "city")
                              /\ JStr(city_data[Get(d, "country").s][i].state) = Get(d, "state")
                        THEN "ok" ELSE "violated")

ConstraintMessage(k, d) ==
    CASE k = 1 -> "Year must be between 1900 and 2025"
      [] k = 2 -> "Month must be between 1 and 12"
      [] k = 3 -> "Day must be between 1 and 31"
      [] k = 4 -> "Hour must be between 0 and 23"
      [] k = 5 -> "Minute must be between 0 and 59"
      [] k = 6 -> "Invalid date"
      [] k = 7 -> IF ManualMode(d)
                  THEN "Latitude, longitude, and timezone are required for manual input"
                  ELSE "Country, state, city, and timezone are required"
      [] k = 8 -> IF ManualMode(d)
                  THEN "Latitude must be between -90 and 90"
                  ELSE "Country " \o Fmt(Get(d, "country")) \o " not found in city data"
      [] OTHER -> IF ManualMode(d)
                  THEN "Longitude must be between -180 and 180"
                  ELSE "City " \o Fmt(Get(d, "city")) \o ", " \o Fmt(Get(d, "state"))
                           \o " not found in " \o Fmt(Get(d, "country"))

Constraints == 1..9

\* The first constraint, in the listed order, that the input does not
\* satisfy; 0 when it satisfies them all.
FirstUnmet(d) ==
    IF \A k \in Constraints : ConstraintStatus(k, d) = "ok" THEN 0
    ELSE CHOOSE k \in Constraints :
            /\ ConstraintStatus(k, d) # "ok"
            /\ \A j \in 1..(k - 1) : ConstraintStatus(j, d) = "ok"

SuccessKeys ==
    {"success", "svg", "planets", "houses", "aspects", "planet_interpretations",
     "aspects_text"}

\* C2: every call of generate_chart ends with one response, either the
\* success object or {success: false, error: message}, whatever the input
\* and whatever fails on the way.
C2_AlwaysATaggedResponse ==
    pc = "generate_chart" =>
        \/ DOMAIN resp = SuccessKeys /\ resp.success
        \/ DOMAIN resp = {"success", "error"} /\ ~resp.success

\* A body that is not a JSON object raises inside the try block and is
\* answered with the exception's text.
C2_Witness ==
    /\ pc = "generate_chart"
    /\ data.kind = "list"
    /\ resp = Failure("'list' object has no attribute 'get'")

EngineFailed ==
    /\ pc = "generate_chart"
    /\ engine_calls # <<>>
    /\ (eng.subject_error # "" \/ eng.chart_error # "" \/ eng.template_error # "")
EngineDetail ==
    IF eng.subject_error # "" THEN eng.subject_error
    ELSE IF eng.chart_error # "" THEN eng.chart_error ELSE eng.template_error

\* C3: when building the subject, building the chart or rendering the
\* template fails, the response is the generic 'invalid parameters' failure
\* and the exception's detail is not in it.
C3_EngineFailureIsGeneric ==
    EngineFailed =>
        /\ resp = Failure("Failed to generate chart: Invalid parameters")
        /\ ~Contains(resp.error, EngineDetail)

\* C4: once validation has passed, an offset that is a key of the table
\* reaches the engine as the zone the table maps it to (a non-empty name;
\* for "8", written twice, the later entry), and any other offset ends the
\* request with a failure whose message contains the offset.
C4_OffsetResolution ==
    Served /\ FirstUnmet(data.fields) = 0 =>
        LET tz == Get(data.fields, "timezone")
        IN IF tz.t = "str" /\ tz.s \in DictKeys(utc_to_pytz_literal)
           THEN /\ Len(engine_calls) = 1
                /\ engine_calls[1].tz_str # ""
                /\ engine_calls[1].tz_str = DictGet(utc_to_pytz_literal, tz.s)
                /\ (tz.s = "8" => engine_calls[1].tz_str = "Asia/Shanghai")
           ELSE /\ engine_calls = <<>>
                /\ DOMAIN resp = {"success", "error"}
                /\ ~resp.success
                /\ Contains(resp.error, Fmt(tz))

\* The offset 99 is not in the table and the failure names it.
C4_Witness ==
    /\ Served
    /\ FirstUnmet(data.fields) = 0
    /\ Get(data.fields, "timezone") = JStr("99")
    /\ resp = Failure("Invalid timezone offset: 99")

\* C9: the engine is called only after every validation check has passed,
\* and with a latitude in [-90, 90] and a longitude in [-180, 180], in
\* both location modes.
C9_EngineGetsValidCoordinates ==
    pc = "generate_chart" /\ engine_calls # <<>> =>
        /\ data.kind = "object"
        /\ FirstUnmet(data.fields) = 0
        /\ InInterval(engine_calls[1].lat, -90, 90) = "ok"
        /\ InInterval(engine_calls[1].lng, -180, 180) = "ok"

(***************************************************************************)
(* SpecAspects: a valid request against engines without an aspects_list,   *)
(* the Sun placed on every tenth of a degree of the circle and the         *)
(* Ascendant on quarter points of it; and one engine with its own list.    *)
(***************************************************************************)
MaxAscendantSteps == 1

AscendantPositions == {k * 900 : k \in 0..MaxAscendantSteps}

PlacedEngine(asc, sun) ==
    [BaseEngine EXCEPT !.position["Ascendant"] = asc, !.position["Sun"] = sun]

AspectEngines ==
    {PlacedEngine(asc, sun) : asc \in AscendantPositions, sun \in 0..3599}
        \cup {[BaseEngine EXCEPT !.has_aspects_list = TRUE,
                                 !.aspects_list = <<[p1_name |-> "Sun", p2_name |-> "Moon",
                                                     aspect_type |-> "quintile", orb |-> 15]>>]}

InitAspects == InitWith({MissingFile}, {FileWith(GoodCities)})

NextAspects ==
    \/ pc = "idle" /\ \E body \in {JsonObject(ManualFields)}, e \in AspectEngines :
                          GenerateChart(body, e)
    \/ GetCities
    \/ Index

SpecAspects == InitAspects /\ [][NextAspects]_vars

Succeeded == pc = "generate_chart" /\ DOMAIN resp = SuccessKeys
FallbackUsed == Succeeded /\ ~eng.has_aspects_list

Bodies == 1..Len(planet_names)
PositionOf(i) == eng.position[planet_names[i]]

\* The separation of two positions, brought into [0, 180] degrees.
ReducedAngle(a, b) ==
    LET diff == IF a >= b THEN a - b ELSE b - a
    IN IF diff > 1800 THEN 3600 - diff ELSE diff

\* The bands of the specification, in their order of precedence.
BandOf(angle) ==
    CASE angle < 100 -> "conjunct"
      [] angle > 1700 /\ angle < 1900 -> "opposition"
      [] angle > 800 /\ angle < 1000 -> "square"
      [] angle > 1100 /\ angle < 1300 -> "trine"
      [] angle > 500 /\ angle < 700 -> "sextile"
      [] OTHER -> "none"

RecordsOf(i, j) ==
    {k \in 1..Len(resp.aspects) :
        resp.aspects[k].planet1 = planet_names[i] /\ resp.aspects[k].planet2 = planet_names[j]}

\* Every pair i < j has the record its band asks for, and no other.
BandsHold ==
    /\ \A i \in Bodies : \A j \in Bodies :
          i < j =>
             LET angle == ReducedAngle(PositionOf(i), PositionOf(j))
             IN /\ 0 <= angle /\ angle <= 1800
                /\ IF BandOf(angle) = "none"
                   THEN RecordsOf(i, j) = {}
                   ELSE /\ Cardinality(RecordsOf(i, j)) = 1
                        /\ \A k \in RecordsOf(i, j) :
                              /\ resp.aspects[k].aspect = BandOf(angle)
                              /\ resp.aspects[k].orb = angle
    /\ \A k \in 1..Len(resp.aspects) :
          \E i \in Bodies : \E j \in Bodies :
             /\ i < j
             /\ resp.aspects[k].planet1 = planet_names[i]
             /\ resp.aspects[k].planet2 = planet_names[j]

PairAt(asc, sun) ==
    eng.position["Ascendant"] = asc /\ eng.position["Sun"] = sun
PairKind(kind) ==
    \E k \in RecordsOf(1, 2) : resp.aspects[k].aspect = kind

\* C5 as stated: the bands, no aspect at 0 and 170 degrees, and opposition
\* at 0 and 169.9 degrees.
C5_BandsAsStated ==
    FallbackUsed =>
        /\ BandsHold
        /\ (PairAt(0, 1700) => RecordsOf(1, 2) = {})
        /\ (PairAt(0, 1699) => PairKind("opposition"))

\* C5 as amended: the bands are exclusive, so bodies at 0 and 170 degrees
\* and bodies at 0 and 169.9 degrees both yield no aspect (169.9 is 10.1
\* from 180); bodies at 0 and 170.1 degrees yield opposition.
C5_Bands ==
    FallbackUsed =>
        /\ BandsHold
        /\ (PairAt(0, 1700) => RecordsOf(1, 2) = {})
        /\ (PairAt(0, 1699) => RecordsOf(1, 2) = {})
        /\ (PairAt(0, 1701) => PairKind("opposition"))

\* Ascendant at 0 and Sun at 170.1 degrees: an opposition with orb 170.1.
C5_Witness ==
    /\ FallbackUsed
    /\ PairAt(0, 1701)
    /\ \E k \in RecordsOf(1, 2) :
          resp.aspects[k].aspect = "opposition" /\ resp.aspects[k].orb = 1701

\* C6: the fallback classification is symmetric: what the response records
\* for a pair (a, b), a kind and an orb or nothing, is what classifying
\* (b, a) gives.
C6_ClassificationSymmetric ==
    FallbackUsed =>
        \A i \in Bodies : \A j \in Bodies :
            i < j =>
               LET orb == Separation(PositionOf(j), PositionOf(i))
                   kind == ClassifyOrb(orb)
               IN IF kind = ""
                  THEN RecordsOf(i, j) = {}
                  ELSE /\ RecordsOf(i, j) # {}
                       /\ \A k \in RecordsOf(i, j) :
                             resp.aspects[k].aspect = kind /\ resp.aspects[k].orb = orb

\* The Ascendant lies ahead of the Sun (90 against 0.5 degrees) and the
\* pair is recorded as a square.
C6_Witness ==
    /\ FallbackUsed
    /\ PairAt(900, 5)
    /\ \E k \in RecordsOf(1, 2) :
          resp.aspects[k].aspect = "square" /\ resp.aspects[k].orb = 895

(***************************************************************************)
(* SpecLookup: a valid request against engines that differ in their house  *)
(* strings and in their aspects_list, and interpretation files that differ *)
(* in their sections and entries.                                          *)
(***************************************************************************)
Ordinals == {house_names[i][1] : i \in 1..Len(house_names)}

\* The canonical tokens, the bare ordinals, and strings around them.
EngineHouses ==
    {o \o "_House" : o \in Ordinals} \cup Ordinals
        \cup {"Second House", "Seventeenth", "Sixteen", "first_house", "", "Firstly",
              "House_First", "Tenth_House_Cusp"}

EngineAspect(p1, p2, kind, orb) ==
    [p1_name |-> p1, p2_name |-> p2, aspect_type |-> kind, orb |-> orb]

EngineAspectRecords ==
    {EngineAspect("Sun", "Moon", "Trine", 12), EngineAspect("Moon", "Sun", "trine", 30),
     EngineAspect("Sun", "Mars", "Quincunx", 20),
     EngineAspect("Venus", "Mars", "conjunction", 5)}

MaxAspectRecords == 1

EngineAspectLists ==
    UNION {[1..n -> EngineAspectRecords] : n \in 0..MaxAspectRecords}

LookupEngines ==
    {[BaseEngine EXCEPT !.house["Sun"] = sun, !.house["Ascendant"] = asc] :
        sun \in EngineHouses, asc \in {"Tenth_House", "Seventh"}}
      \cup
    {[BaseEngine EXCEPT !.house["Sun"] = sun, !.has_aspects_list = TRUE, !.aspects_list = list] :
        sun \in {"First_House", "Tenth"}, list \in EngineAspectLists}

\* interpretations.json with both sections filled; Mars_quincunx_Sun has
\* no entry in the other order.
FullTable ==
    [sections |-> {"planets_in_houses", "aspects"},
     planets_in_houses |->
        [Sun |-> [First_House |-> "Identity leads.", Tenth_House |-> "Public life."],
         Ascendant |-> [First_House |-> "The rising sign."]],
     aspects |->
        [Sun_trine_Moon |-> "Ease between will and feeling.",
         Mars_quincunx_Sun |-> "Adjustment.",
         Sun_conjunct_Moon |-> "New moon."]]

\* A file whose entry for Sun_trine_Moon is the empty text.
EmptyTextTable ==
    [FullTable EXCEPT !.aspects =
        [Sun_trine_Moon |-> "", Moon_trine_Sun |-> "Feeling supports will.",
         Venus_conjunction_Mars |-> ""]]

\* Files that hold one section only.
OnlyAspects == [FullTable EXCEPT !.sections = {"aspects"}]
OnlyPlanets == [FullTable EXCEPT !.sections = {"planets_in_houses"}]

InitLookup ==
    InitWith({MissingFile, FileWith(FullTable), FileWith(EmptyTextTable),
              FileWith(OnlyAspects), FileWith(OnlyPlanets), FileWith(NoSections)},
             {FileWith(GoodCities)})

NextLookup ==
    \/ pc = "idle" /\ \E body \in {JsonObject(CityFields)}, e \in LookupEngines :
                          GenerateChart(body, e)
    \/ GetCities
    \/ Index

SpecLookup == InitLookup /\ [][NextLookup]_vars

\* The request has gone through the engine's three steps.
LookupReached ==
    /\ pc = "generate_chart"
    /\ engine_calls # <<>>
    /\ eng.subject_error = "" /\ eng.chart_error = "" /\ eng.template_error = ""

HasEntry(name, house) ==
    /\ "planets_in_houses" \in interpretations.sections
    /\ name \in DOMAIN interpretations.planets_in_houses
    /\ house \in DOMAIN interpretations.planets_in_houses[name]

\* C7: whatever the interpretation table holds, a request that reaches the
\* lookup succeeds, with one line for each of the 11 bodies (the 'No
\* interpretation available' placeholder where the table has no entry) and
\* one line for each aspect record.
C7_LookupNeverFails ==
    LookupReached =>
        /\ DOMAIN resp = SuccessKeys
        /\ resp.success
        /\ Len(resp.planets) = 11
        /\ Len(resp.planet_interpretations) = 11
        /\ \A i \in 1..11 :
              ~HasEntry(resp.planets[i].name, resp.planets[i].house)
                 => Contains(resp.planet_interpretations[i], "No interpretation available")
        /\ Len(resp.aspects_text) = Len(resp.aspects)

AspectTable ==
    IF "aspects" \in interpretations.sections THEN interpretations.aspects ELSE EmptyDict
KeyOf(first, kind, second) == first \o "_" \o MappedAspect(kind) \o "_" \o second

\* C8: the text of an aspect record is the entry under body1_kind_body2
\* when the table has that key; else the entry under body2_kind_body1 when
\* it has that one; and the placeholder only when it has neither.
C8_DirectThenReverseThenPlaceholder ==
    Succeeded =>
        \A k \in 1..Len(resp.aspects) :
            LET a == resp.aspects[k]
                direct == KeyOf(a.planet1, a.aspect, a.planet2)
                reverse == KeyOf(a.planet2, a.aspect, a.planet1)
            IN resp.aspects_text[k] =
                  IF direct \in DOMAIN AspectTable THEN AspectTable[direct]
                  ELSE IF reverse \in DOMAIN AspectTable THEN AspectTable[reverse]
                  ELSE "No interpretation available for " \o a.planet1 \o " "
                           \o a.aspect \o " " \o a.planet2 \o "."

\* The ordinal table read in other orders.
Reversed(table) == [i \in 1..Len(table) |-> table[Len(table) + 1 - i]]
Rotated(table, n) == [i \in 1..Len(table) |-> table[((i + n - 1) % Len(table)) + 1]]
TableOrders ==
    {house_names, Reversed(house_names)}
        \cup {Rotated(house_names, n) : n \in 1..(Len(house_names) - 1)}

\* C10: the Ascendant's house is First_House whatever the engine says; any
\* other body whose engine house begins with an ordinal word gets that
\* ordinal's token; reading the ordinal table in another order gives the
\* same house; and a canonical token stays as it is.
C10_HouseNormalization ==
    Succeeded =>
        /\ resp.planets[1].name = "Ascendant"
        /\ resp.planets[1].house = "First_House"
        /\ \A i \in 2..Len(planet_names) :
              LET given == eng.house[planet_names[i]]
                  house == resp.planets[i].house
              IN /\ \A o \in Ordinals : StartsWith(given, o) => house = o \o "_House"
                 /\ ((\A o \in Ordinals : ~StartsWith(given, o)) => house = given)
                 /\ \A table \in TableOrders : NormalizeHouseIn(table, given) = house
                 /\ (given \in {o \o "_House" : o \in Ordinals} => house = given)
                 /\ NormalizeHouseIn(house_names, house) = house

\* The engine puts the Ascendant in "Seventh" and the Sun in "Sixth": the
\* records say First_House and Sixth_House.
C10_Witness ==
    /\ Succeeded
    /\ eng.house["Ascendant"] = "Seventh"
    /\ eng.house["Sun"] = "Sixth"
    /\ resp.planets[1].house = "First_House"
    /\ resp.planets[2].house = "Sixth_House"

====
